---- MODULE Spec2Model ----
(***************************************************************************)
(* FarmaSathi backend: the query lifecycle (submit / assign / reply) of    *)
(* app/routes/queries.py over the queries and notifications collections,   *)
(* and the WebSocket connection manager of app/routes/websocket.py.        *)
(*                                                                         *)
(* Every request handler is a coroutine: each `await` on the record store  *)
(* is one atomic step, and other handlers may run between two steps.       *)
(* The record store is taken to be available (database.client is set by    *)
(* connect_to_mongo); its single-document operations are atomic.           *)
(***************************************************************************)
EXTENDS Integers, Sequences, FiniteSets, TLC

(***************************************************************************)
(* Bounds of the model.                                                    *)
(***************************************************************************)
MaxRequests == 3    \* requests accepted in one behaviour
MaxQueries == 2     \* documents in the queries collection
MaxChannels == 2    \* WebSocket connections opened in one behaviour
MaxDeliveries == 1  \* calls of the notification helpers in one behaviour
MaxFrames == 2      \* inbound frames a client sends on one connection
RtRequests == 2     \* requests accepted in one behaviour of SpecRealtime

(***************************************************************************)
(* Program constants.                                                      *)
(***************************************************************************)
MinQueryLen == 10   \* QueryBase.query_text min_length
MinReplyLen == 20   \* OfficerReply.reply_text min_length
InvalidId == 0      \* a query_id string that ObjectId() rejects
PolicyViolation == 1008  \* the close code of a rejected handshake
DefaultLimit == 50       \* get_query_history: limit = Query(50, le=100)

\* None of Python, for the string-valued fields.
None == "None"
\* None of Python, for the numeric fields (texts are modelled by their
\* length, times by the logical clock; both are >= 1 when set).
Nil == 0

(***************************************************************************)
(* Users: the payload of a validated access token, {user_id, role}.        *)
(* Stored ids are str(ObjectId); one id carries the "officer_" prefix that *)
(* ConnectionManager.broadcast_to_officers looks for.                      *)
(***************************************************************************)
UserRole == {"farmer", "officer", "admin"}

Users ==
    { [user_id |-> "65a1", role |-> "farmer"],
      [user_id |-> "65a2", role |-> "farmer"],
      [user_id |-> "65b1", role |-> "officer"],
      [user_id |-> "officer_65b2", role |-> "officer"] }

UserIds == { u.user_id : u \in Users }

QueryStatus == {"open", "assigned", "resolved", "closed"}

NotificationType ==
    {"query_submitted", "query_assigned", "query_replied", "query_resolved", "system"}

\* The request slots: handlers that may be in flight at the same time.
Slots == {1, 2}

\* Inputs of the requests.
QueryTextLens == {MinQueryLen - 1, MinQueryLen}
ReplyTextLens == {MinReplyLen - 1, MinReplyLen}
\* QueryCreate.farmer_id, a field of the request body
BodyFarmerIds == {"65a1", "65a2"}
QueryIdInputs == {InvalidId} \cup (1 .. MaxQueries)

\* The WebSocket connections (one handler coroutine each).
Channels == 1 .. MaxChannels

\* What decode_access_token makes of the token of a handshake: it raises
\* (valid = FALSE), or returns a payload whose "sub" may be missing.
Tokens ==
    { [valid |-> TRUE, sub |-> u.user_id, role |-> u.role] : u \in Users }
    \cup { [valid |-> FALSE, sub |-> None, role |-> None],
           [valid |-> TRUE, sub |-> None, role |-> "farmer"] }

\* Inbound frames: the text a client sends.
\* "no_type" is a JSON object without a type field, "not_object" is JSON
\* that is no object (a list, a string, a number).
InboundFrames ==
    {"ping", "subscribe", "subscribe_no_channel", "other_type", "no_type",
     "not_json", "not_object"}

VARIABLES
    queries,        \* the queries collection: sequence of documents, _id = index
    notifications,  \* the notifications collection, in insertion order
    notif_by,       \* history: the request number that inserted each notification
    reqs,           \* the request handlers in flight, by slot
    nreq,           \* requests accepted so far; also the logical clock
    active_connections, \* manager.active_connections: the dict, in insertion
                        \* order, of user_id -> list of websockets
    ws,             \* the websocket_notifications handlers, by connection
    inbox,          \* the frames each client has received, in order
    task,           \* the delivery (send_personal_message / broadcast) in progress
    ndeliv,         \* deliveries started so far
    users           \* the users collection, in insertion order

qvars == <<queries, notifications, notif_by, reqs, nreq>>
wvars == <<active_connections, ws, inbox>>
dvars == <<task, ndeliv>>
vars == <<queries, notifications, notif_by, reqs, nreq,
          active_connections, ws, inbox, task, ndeliv, users>>

\* The document a lookup returns when nothing matches (None), and the
\* value of a handler's local `result` before it is bound.
NoDoc ==
    [farmer_id |-> None, query_text |-> Nil, status |-> None,
     created_at |-> Nil, assigned_to |-> None, updated_at |-> Nil,
     reply |-> Nil]

NoUser == [user_id |-> None, role |-> None]

\* UserCreate, the body of register_user: the fields the indexes and the
\* token use.  phone matches ^\d{10}$, email is optional.
NoUserCreate == [phone |-> None, email |-> None, role |-> None]
Phones == {"9876543210", "9876543211"}
Emails == {None, "a@farm.in", "b@farm.in"}
UserCreate == [phone : Phones, email : Emails, role : {"farmer", "officer"}]

\* A request slot. at_start, pre and stable are history: the target query
\* when the request was accepted, the query just before the handler's
\* update, and the connections registered ever since the request was
\* accepted.  status and limit are the parameters of get_query_history and
\* rows is its response.  user is the body of register_user and user_id the
\* id it returns; taken is history: the phone was registered when the
\* request was accepted.
Idle ==
    [op |-> "idle", pc |-> "idle", rid |-> 0, caller |-> NoUser, query_id |-> 0,
     text |-> Nil, mark_resolved |-> FALSE, body_farmer_id |-> None,
     at_start |-> NoDoc, pre |-> NoDoc, result |-> NoDoc, code |-> 0,
     stable |-> {}, status |-> None, limit |-> 0, rows |-> <<>>,
     user |-> NoUserCreate, user_id |-> 0, taken |-> FALSE]

(***************************************************************************)
(* Variants of the handlers' definitions that the code does not have: each *)
(* property below is shown to tell the code's definition from its variant. *)
(***************************************************************************)
\* An insert_one on the notifications collection that stores nothing.
insert_notification_lost(rid, notification) ==
    UNCHANGED <<notifications, notif_by>>

\* A submit notification addressed to the submitting side's first officer.
submit_notification_to_one_officer(query_id) ==
    [user_id |-> "65b1", title |-> "New Query Submitted",
     notification_type |-> "query_submitted", query_id |-> query_id,
     read |-> FALSE]

\* A "$set" of assign_query that does not record the officer.
assign_set_without_owner(doc, current_user, t) ==
    [doc EXCEPT !.status = "assigned", !.updated_at = t]

\* A reply notification that ignores mark_resolved.
reply_notification_always_replied(result, query_id, mark_resolved) ==
    [user_id |-> result.farmer_id, title |-> "Officer Replied",
     notification_type |-> "query_replied", query_id |-> query_id,
     read |-> FALSE]

\* An assign_query that answers every failed lookup with 400.
assign_outcome_always_invalid(query_id, doc) ==
    IF query_id = InvalidId \/ doc = NoDoc THEN 400 ELSE 0

\* datetime.utcnow(), as the handler of slot s reads it for a query
\* document (the notifications' created_at is not modelled).  The clock
\* is the number of requests accepted.  submit_query and reply_to_query
\* read it before their first store operation, in the step that accepts
\* the request: their reading is rid.  assign_query reads it in the call
\* of find_one_and_update.
utcnow(s) == IF reqs[s].op = "assign" THEN nreq ELSE reqs[s].rid

\* find_one({"_id": ObjectId(query_id)}): the document, or None.
find_one(query_id) ==
    IF query_id \in 1 .. Len(queries) THEN queries[query_id] ELSE NoDoc

\* Depends(require_officer_role): the handler runs only for an officer.
require_officer_role(current_user) == current_user.role = "officer"

(***************************************************************************)
(* The documents the handlers build.                                       *)
(***************************************************************************)
\* submit_query: query_doc = {**query.dict(), "farmer_id": current_user[..],
\* "status": OPEN, "created_at": utcnow(), "assigned_to": None, ...}
query_doc(current_user, text, t) ==
    [farmer_id |-> current_user.user_id, query_text |-> text, status |-> "open",
     created_at |-> t, assigned_to |-> None, updated_at |-> Nil, reply |-> Nil]

\* submit_query's response: QueryResponse(id, **query.dict(), status=OPEN,
\* created_at); farmer_id is the request body's.
submit_response(body_farmer_id, text, t) ==
    [farmer_id |-> body_farmer_id, query_text |-> text, status |-> "open",
     created_at |-> t, assigned_to |-> None, updated_at |-> Nil, reply |-> Nil]

\* submit_query's notification.
submit_notification(query_id) ==
    [user_id |-> "all_officers", title |-> "New Query Submitted",
     notification_type |-> "query_submitted", query_id |-> query_id,
     read |-> FALSE]

\* assign_query: the filter of find_one_and_update is {"_id": ObjectId(id)}.
assign_filter(doc) == doc # NoDoc

\* assign_query: what follows the find_one_and_update of `doc`: 400 when
\* ObjectId(query_id) raised, 404 when nothing matched, else 0 (go on).
assign_outcome(query_id, doc) ==
    IF query_id = InvalidId THEN 400
    ELSE IF ~assign_filter(doc) THEN 404
    ELSE 0

\* assign_query: the "$set" of find_one_and_update.
assign_set(doc, current_user, t) ==
    [doc EXCEPT !.status = "assigned",
                !.assigned_to = current_user.user_id,
                !.updated_at = t]

\* assign_query's notification.
assign_notification(result, query_id) ==
    [user_id |-> result.farmer_id, title |-> "Query Assigned",
     notification_type |-> "query_assigned", query_id |-> query_id,
     read |-> FALSE]

\* reply_to_query: the filter of find_one_and_update is {"_id": ObjectId(id)}.
reply_filter(doc) == doc # NoDoc

\* reply_to_query: what follows the find_one_and_update of `doc`.
reply_outcome(query_id, doc) ==
    IF query_id = InvalidId THEN 400
    ELSE IF ~reply_filter(doc) THEN 404
    ELSE 0

\* reply_to_query: update_data, with "status" only under mark_resolved.
reply_set(doc, text, mark_resolved, t) ==
    [doc EXCEPT !.reply = text,
                !.updated_at = t,
                !.status = IF mark_resolved THEN "resolved" ELSE @]

\* reply_to_query's notification.
reply_notification(result, query_id, mark_resolved) ==
    [user_id |-> result.farmer_id,
     title |-> IF ~mark_resolved THEN "Officer Replied" ELSE "Query Resolved",
     notification_type |->
         IF ~mark_resolved THEN "query_replied" ELSE "query_resolved",
     query_id |-> query_id, read |-> FALSE]

\* insert_one on the notifications collection.
insert_notification(rid, notification) ==
    /\ notifications' = Append(notifications, notification)
    /\ notif_by' = Append(notif_by, rid)

\* The handler of slot s ends with this status code and response body.
finish(s, code, result) ==
    reqs' = [reqs EXCEPT ![s].pc = "done", ![s].code = code, ![s].result = result]

(***************************************************************************)
(* ConnectionManager: active_connections is a Python dict.  It is modelled *)
(* as CPython keeps it: an array of entries in insertion order, in which a *)
(* deleted key leaves a dead entry behind (the array is compacted only     *)
(* when it is resized, which does not happen at these sizes).              *)
(***************************************************************************)
\* The live entry of user_id, or 0: `user_id in self.active_connections`.
key_index(d, user_id) ==
    IF \E k \in 1 .. Len(d) : d[k].live /\ d[k].user_id = user_id
    THEN CHOOSE k \in 1 .. Len(d) : d[k].live /\ d[k].user_id = user_id
    ELSE 0

\* len(self.active_connections)
used(d) == Cardinality({ k \in 1 .. Len(d) : d[k].live })

\* list.remove(x): the list without the first occurrence of x.
list_remove(l, x) ==
    LET i == CHOOSE i \in 1 .. Len(l) : l[i] = x /\ \A j \in 1 .. i - 1 : l[j] # x
    IN  [j \in 1 .. Len(l) - 1 |-> IF j < i THEN l[j] ELSE l[j + 1]]

\* ConnectionManager.connect, after websocket.accept().
connect(d, websocket, user_id) ==
    LET k == key_index(d, user_id)
    IN  IF k = 0
        THEN Append(d, [user_id |-> user_id, conns |-> <<websocket>>, live |-> TRUE])
        ELSE [d EXCEPT ![k].conns = Append(@, websocket)]

\* A disconnect without its `del` of the emptied entry (a variant the code
\* does not have).
disconnect_keeps_entry(d, websocket, user_id) ==
    LET k == key_index(d, user_id)
    IN  IF k = 0 THEN d ELSE [d EXCEPT ![k].conns = list_remove(d[k].conns, websocket)]

\* A disconnect that drops the user's whole entry (a variant the code does
\* not have).
disconnect_whole_entry(d, websocket, user_id) ==
    LET k == key_index(d, user_id)
    IN  IF k = 0 THEN d ELSE [d EXCEPT ![k].conns = <<>>, ![k].live = FALSE]

\* ConnectionManager.disconnect, for a websocket that is in the user's list.
disconnect(d, websocket, user_id) ==
    LET k == key_index(d, user_id)
    IN  IF k = 0
        THEN d
        ELSE LET l == list_remove(d[k].conns, websocket)
             IN  [d EXCEPT ![k].conns = l, ![k].live = (l # <<>>)]

\* ConnectionManager.disconnect raises: the user has an entry, and
\* list.remove(websocket) does not find the websocket in it (ValueError).
disconnect_raises(d, websocket, user_id) ==
    LET k == key_index(d, user_id)
    IN  /\ k # 0
        /\ \A i \in 1 .. Len(d[k].conns) : d[k].conns[i] # websocket

\* user_id.startswith("officer_")
startswith_officer(user_id) == user_id \in {"officer_65b2"}

\* The connections in the registry.
Registered ==
    { c \in Channels : \E k \in 1 .. Len(active_connections) :
          \E i \in 1 .. Len(active_connections[k].conns) :
              active_connections[k].conns[i] = c }

(***************************************************************************)
(* Outbound frames: the dicts handed to send_json.                         *)
(***************************************************************************)
connection_frame(user_id, role) ==
    [type |-> "connection", message |-> "Connected to FarmaSathi notifications",
     user_id |-> user_id, role |-> role]
pong_frame == [type |-> "pong"]
\* message.get("channel") of a subscribe frame: its channel, or None.
subscribed_frame(frame) ==
    [type |-> "subscribed",
     channel |-> IF frame = "subscribe" THEN "queries" ELSE None]
error_frame == [type |-> "error", message |-> "Invalid JSON"]
\* send_notification's message
notification_frame(notification) == [type |-> "notification", data |-> notification]
\* notify_new_query's message
new_query_frame(query_data) == [type |-> "new_query", data |-> query_data]
\* notify_query_reply's message
query_reply_frame(query_data) == [type |-> "query_reply", data |-> query_data]

\* No delivery has run yet.  to, d0, moved and attempts are history: the
\* user a personal message is for, the registry when the delivery was
\* called, whether the delivery has found the registry different from d0
\* when it resumed, and the sends made so far.
NoTask ==
    [status |-> "none", kind |-> "none", message |-> pong_frame,
     k |-> 0, i |-> 1, size0 |-> 0, attempts |-> <<>>,
     to |-> None, d0 |-> <<>>, moved |-> FALSE]

\* await connection.send_json(message) succeeds while the peer is there.
can_send(c) == ws[c].peer = "up"

\* A new request is served by the first free slot (a slot is only a name).
free(s) == reqs[s].op = "idle" /\ \A s2 \in Slots : s2 < s => reqs[s2].op # "idle"

\* Submits accepted whose insert_one is still to come.
PendingInserts == { s \in Slots : reqs[s].op = "submit" /\ reqs[s].pc = "insert" }

\* A connection handler that has not started.  token, frame, nread,
\* unregistered and error are history: what decode_access_token made of the
\* token, the last inbound frame read and the number of frames read, the
\* number of calls of manager.disconnect for this connection, and the
\* exception the last of these calls raised.
NoHandler ==
    [pc |-> "idle", user_id |-> None, role |-> None, peer |-> "up", close_code |-> 0,
     token |-> [valid |-> FALSE, sub |-> None, role |-> None],
     frame |-> "none", nread |-> 0, unregistered |-> 0, error |-> None]

Init ==
    /\ queries = <<>>
    /\ notifications = <<>>
    /\ notif_by = <<>>
    /\ reqs = [s \in Slots |-> Idle]
    /\ nreq = 0
    /\ active_connections = <<>>
    /\ ws = [c \in Channels |-> NoHandler]
    /\ inbox = [c \in Channels |-> <<>>]
    /\ task = NoTask
    /\ ndeliv = 0
    /\ users = <<>>

(***************************************************************************)
(* POST /api/queries/submit                                                *)
(***************************************************************************)
\* The request arrives: the body is validated (QueryCreate) before the
\* handler runs; a short query_text is a 422.
submit_query_start(s, current_user, text, body_farmer_id) ==
    /\ free(s)
    /\ nreq < MaxRequests
    /\ Len(queries) + Cardinality(PendingInserts) < MaxQueries
    /\ nreq' = nreq + 1
    /\ reqs' = [reqs EXCEPT ![s] =
          [Idle EXCEPT !.op = "submit", !.rid = nreq + 1, !.stable = Registered, !.caller = current_user,
                       !.text = text, !.body_farmer_id = body_farmer_id,
                       !.pc = IF text >= MinQueryLen THEN "insert" ELSE "done",
                       !.code = IF text >= MinQueryLen THEN 0 ELSE 422]]
    /\ UNCHANGED <<queries, notifications, notif_by, wvars, dvars, users>>

\* await queries_collection.insert_one(query_doc)
submit_query_insert(s) ==
    /\ reqs[s].op = "submit" /\ reqs[s].pc = "insert"
    /\ queries' = Append(queries, query_doc(reqs[s].caller, reqs[s].text, utcnow(s)))
    /\ reqs' = [reqs EXCEPT ![s].pc = "notify",
                            ![s].query_id = Len(queries) + 1,
                            ![s].result = submit_response(reqs[s].body_farmer_id,
                                                          reqs[s].text, utcnow(s))]
    /\ UNCHANGED <<notifications, notif_by, nreq, wvars, dvars, users>>

\* await notifications_collection.insert_one(notification); return
submit_query_notify(s) ==
    /\ reqs[s].op = "submit" /\ reqs[s].pc = "notify"
    /\ insert_notification(reqs[s].rid, submit_notification(reqs[s].query_id))
    /\ finish(s, 201, reqs[s].result)
    /\ UNCHANGED <<queries, nreq, wvars, dvars, users>>

(***************************************************************************)
(* POST /api/queries/{query_id}/assign                                     *)
(***************************************************************************)
assign_query_start(s, current_user, query_id) ==
    /\ free(s)
    /\ nreq < MaxRequests
    /\ nreq' = nreq + 1
    /\ reqs' = [reqs EXCEPT ![s] =
          [Idle EXCEPT !.op = "assign", !.rid = nreq + 1, !.stable = Registered, !.caller = current_user,
                       !.query_id = query_id, !.at_start = find_one(query_id),
                       !.pc = IF require_officer_role(current_user)
                              THEN "update" ELSE "done",
                       !.code = IF require_officer_role(current_user)
                                THEN 0 ELSE 403]]
    /\ UNCHANGED <<queries, notifications, notif_by, wvars, dvars, users>>

\* await queries_collection.find_one_and_update(...), and the two raises
assign_query_update(s) ==
    /\ reqs[s].op = "assign" /\ reqs[s].pc = "update"
    /\ LET q == reqs[s].query_id
           doc == find_one(q)
       IN  IF assign_outcome(q, doc) # 0
           THEN /\ finish(s, assign_outcome(q, doc), NoDoc)
                /\ UNCHANGED queries
           ELSE /\ queries' = [queries EXCEPT ![q] =
                                  assign_set(doc, reqs[s].caller, utcnow(s))]
                /\ reqs' = [reqs EXCEPT ![s].pc = "notify",
                                        ![s].pre = doc,
                                        ![s].result = queries'[q]]
    /\ UNCHANGED <<notifications, notif_by, nreq, wvars, dvars, users>>

\* await notifications_collection.insert_one(notification); return
assign_query_notify(s) ==
    /\ reqs[s].op = "assign" /\ reqs[s].pc = "notify"
    /\ insert_notification(reqs[s].rid,
          assign_notification(reqs[s].result, reqs[s].query_id))
    /\ finish(s, 200, reqs[s].result)
    /\ UNCHANGED <<queries, nreq, wvars, dvars, users>>

(***************************************************************************)
(* POST /api/queries/{query_id}/reply                                      *)
(***************************************************************************)
reply_to_query_start(s, current_user, query_id, text, mark_resolved) ==
    /\ free(s)
    /\ nreq < MaxRequests
    /\ nreq' = nreq + 1
    /\ LET code == IF ~require_officer_role(current_user) THEN 403
                   ELSE IF text < MinReplyLen THEN 422 ELSE 0
       IN  reqs' = [reqs EXCEPT ![s] =
              [Idle EXCEPT !.op = "reply", !.rid = nreq + 1, !.stable = Registered,
                           !.caller = current_user, !.query_id = query_id,
                           !.text = text, !.mark_resolved = mark_resolved,
                           !.at_start = find_one(query_id),
                           !.pc = IF code = 0 THEN "update" ELSE "done",
                           !.code = code]]
    /\ UNCHANGED <<queries, notifications, notif_by, wvars, dvars, users>>

\* await queries_collection.find_one_and_update(...), and the two raises
reply_to_query_update(s) ==
    /\ reqs[s].op = "reply" /\ reqs[s].pc = "update"
    /\ LET q == reqs[s].query_id
           doc == find_one(q)
       IN  IF reply_outcome(q, doc) # 0
           THEN /\ finish(s, reply_outcome(q, doc), NoDoc)
                /\ UNCHANGED queries
           ELSE /\ queries' = [queries EXCEPT ![q] =
                                  reply_set(doc, reqs[s].text,
                                            reqs[s].mark_resolved, utcnow(s))]
                /\ reqs' = [reqs EXCEPT ![s].pc = "notify",
                                        ![s].pre = doc,
                                        ![s].result = queries'[q]]
    /\ UNCHANGED <<notifications, notif_by, nreq, wvars, dvars, users>>

\* await notifications_collection.insert_one(notification); return
reply_to_query_notify(s) ==
    /\ reqs[s].op = "reply" /\ reqs[s].pc = "notify"
    /\ insert_notification(reqs[s].rid,
          reply_notification(reqs[s].result, reqs[s].query_id,
                             reqs[s].mark_resolved))
    /\ finish(s, 200, reqs[s].result)
    /\ UNCHANGED <<queries, nreq, wvars, dvars, users>>

(***************************************************************************)
(* GET /api/queries/{query_id}                                             *)
(***************************************************************************)
\* A get_query_details that lets every caller read every query (a variant
\* the code does not have).
get_query_details_unchecked(current_user, query_id, doc) ==
    IF query_id = InvalidId THEN 400
    ELSE IF doc = NoDoc THEN 404
    ELSE 200

\* get_query_details: what follows the find_one of `doc`: 400 when
\* ObjectId(query_id) raised, 404 when nothing matched, 403 for a farmer
\* who does not own the query, else the document.
get_query_details_outcome(current_user, query_id, doc) ==
    IF query_id = InvalidId THEN 400
    ELSE IF doc = NoDoc THEN 404
    ELSE IF current_user.role = "farmer" /\ doc.farmer_id # current_user.user_id
    THEN 403
    ELSE 200

\* The request arrives; Depends(get_current_user) accepts every role.
get_query_details_start(s, current_user, query_id) ==
    /\ free(s)
    /\ nreq < MaxRequests
    /\ nreq' = nreq + 1
    /\ reqs' = [reqs EXCEPT ![s] =
          [Idle EXCEPT !.op = "details", !.rid = nreq + 1, !.stable = Registered,
                       !.caller = current_user, !.query_id = query_id,
                       !.at_start = find_one(query_id), !.pc = "find"]]
    /\ UNCHANGED <<queries, notifications, notif_by, wvars, dvars, users>>

\* await queries_collection.find_one(...), the three raises, the response
get_query_details_find(s) ==
    /\ reqs[s].op = "details" /\ reqs[s].pc = "find"
    /\ LET doc == find_one(reqs[s].query_id)
           code == get_query_details_outcome(reqs[s].caller, reqs[s].query_id, doc)
       IN  finish(s, code, IF code = 200 THEN doc ELSE NoDoc)
    /\ UNCHANGED <<queries, notifications, notif_by, nreq, wvars, dvars, users>>

(***************************************************************************)
(* GET /api/queries/history                                                *)
(***************************************************************************)
\* get_query_history: filter_query, applied to a stored document.
history_filter(current_user, status, doc) ==
    IF current_user.role = "farmer"
    THEN doc.farmer_id = current_user.user_id
    ELSE IF current_user.role = "officer" /\ status # None
    THEN doc.status = status
    ELSE TRUE

\* cursor.sort("created_at", -1): the ids of S, latest first.
RECURSIVE sort_created_at(_)
sort_created_at(S) ==
    IF S = {} THEN <<>>
    ELSE LET m == CHOOSE i \in S :
                      \A j \in S : queries[j].created_at <= queries[i].created_at
         IN  <<m>> \o sort_created_at(S \ {m})

\* One QueryResponse of the list get_query_history returns.
history_row(id) ==
    [id |-> id, farmer_id |-> queries[id].farmer_id, status |-> queries[id].status,
     created_at |-> queries[id].created_at]

\* find(filter_query).sort("created_at", -1).limit(limit), as responses.
history_rows(current_user, status, limit) ==
    LET ids == sort_created_at({ i \in 1 .. Len(queries) :
                                    history_filter(current_user, status, queries[i]) })
        n == IF Len(ids) < limit THEN Len(ids) ELSE limit
    IN  [j \in 1 .. n |-> history_row(ids[j])]

\* The request arrives; Depends(get_current_user) accepts every role.
get_query_history_start(s, current_user, status, limit) ==
    /\ free(s)
    /\ nreq < MaxRequests
    /\ nreq' = nreq + 1
    /\ reqs' = [reqs EXCEPT ![s] =
          [Idle EXCEPT !.op = "history", !.rid = nreq + 1, !.stable = Registered,
                       !.caller = current_user, !.status = status,
                       !.limit = limit, !.pc = "to_list"]]
    /\ UNCHANGED <<queries, notifications, notif_by, wvars, dvars, users>>

\* await cursor.to_list(length=limit), and the response
get_query_history_to_list(s) ==
    /\ reqs[s].op = "history" /\ reqs[s].pc = "to_list"
    /\ reqs' = [reqs EXCEPT ![s].pc = "done", ![s].code = 200,
                            ![s].rows = history_rows(reqs[s].caller, reqs[s].status,
                                                     reqs[s].limit)]
    /\ UNCHANGED <<queries, notifications, notif_by, nreq, wvars, dvars, users>>

(***************************************************************************)
(* POST /api/auth/register, with the indexes init_db creates on users:     *)
(* a unique index on email and a plain index on phone.                     *)
(***************************************************************************)
\* users_collection.find_one({"phone": phone}) finds a document.
existing_user(phone) == \E i \in 1 .. Len(users) : users[i].phone = phone

\* create_index("email", unique=True): insert_one raises DuplicateKeyError
\* when a stored user has the same email; a missing email is stored as
\* null and is a value of the index like any other.
email_index_rejects(email) == \E i \in 1 .. Len(users) : users[i].email = email

\* create_index("phone"): the index is not unique and rejects nothing.
phone_index_rejects(phone) == FALSE

\* The request arrives with a valid body; the handler has no dependency.
register_user_start(s, user) ==
    /\ free(s)
    /\ nreq < MaxRequests
    /\ nreq' = nreq + 1
    /\ reqs' = [reqs EXCEPT ![s] =
          [Idle EXCEPT !.op = "register", !.rid = nreq + 1, !.stable = Registered,
                       !.user = user, !.taken = existing_user(user.phone),
                       !.pc = "find_one"]]
    /\ UNCHANGED <<queries, notifications, notif_by, wvars, dvars, users>>

\* existing_user = await users_collection.find_one(...), and the raise
register_user_find_one(s) ==
    /\ reqs[s].op = "register" /\ reqs[s].pc = "find_one"
    /\ IF existing_user(reqs[s].user.phone)
       THEN finish(s, 400, NoDoc)
       ELSE reqs' = [reqs EXCEPT ![s].pc = "insert_one"]
    /\ UNCHANGED <<queries, notifications, notif_by, nreq, wvars, dvars, users>>

\* await users_collection.insert_one(user_doc), the token and the response;
\* an error of the insert is not caught (500).
register_user_insert_one(s) ==
    /\ reqs[s].op = "register" /\ reqs[s].pc = "insert_one"
    /\ IF \/ email_index_rejects(reqs[s].user.email)
          \/ phone_index_rejects(reqs[s].user.phone)
       THEN /\ finish(s, 500, NoDoc)
            /\ UNCHANGED users
       ELSE /\ users' = Append(users, reqs[s].user)
            /\ reqs' = [reqs EXCEPT ![s].pc = "done", ![s].code = 201,
                                    ![s].user_id = Len(users) + 1]
    /\ UNCHANGED <<queries, notifications, notif_by, nreq, wvars, dvars>>

\* The response has been written to the client: the slot is free again.
respond(s) ==
    /\ reqs[s].pc = "done"
    /\ reqs' = [reqs EXCEPT ![s] = Idle]
    /\ UNCHANGED <<queries, notifications, notif_by, nreq, wvars, dvars, users>>

(***************************************************************************)
(* websocket_notifications: the handler of /ws/notifications               *)
(***************************************************************************)
\* A connection leaves the registry: it is no longer one that was
\* registered during the whole of a request in flight (history).
drop_stable(c) ==
    reqs' = [s \in Slots |->
                [reqs[s] EXCEPT !.stable = @ \ {c}]]

\* A handshake that registers the connection whatever the token is (a
\* variant the code does not have).
websocket_handshake_unchecked(c, token) ==
    /\ ws[c].pc = "idle"
    /\ \A c2 \in Channels : c2 < c => ws[c2].pc # "idle"
    /\ active_connections' = connect(active_connections, c, token.sub)
    /\ ws' = [ws EXCEPT ![c].pc = "welcome", ![c].user_id = token.sub,
                        ![c].role = token.role, ![c].token = token]
    /\ UNCHANGED <<qvars, inbox, dvars, users>>

\* The handshake: decode_access_token, then close(1008) or manager.connect.
websocket_handshake(c, token) ==
    /\ ws[c].pc = "idle"
    /\ \A c2 \in Channels : c2 < c => ws[c2].pc # "idle"
    /\ IF ~token.valid \/ token.sub = None
       THEN /\ ws' = [ws EXCEPT ![c].pc = "ended",
                                ![c].close_code = PolicyViolation,
                                ![c].token = token]
            /\ UNCHANGED active_connections
       ELSE /\ active_connections' = connect(active_connections, c, token.sub)
            /\ ws' = [ws EXCEPT ![c].pc = "welcome",
                                ![c].user_id = token.sub,
                                ![c].role = token.role,
                                ![c].token = token]
    /\ UNCHANGED <<qvars, inbox, dvars, users>>

\* await websocket.send_json({"type": "connection", ...}), outside the try.
\* When the client is gone the send either raises, and the handler ends
\* without manager.disconnect, or is dropped by the server, and the handler
\* goes on to its read loop: which of the two depends on the ASGI server.
websocket_welcome(c) ==
    /\ ws[c].pc = "welcome"
    /\ IF can_send(c)
       THEN /\ inbox' = [inbox EXCEPT ![c] =
                            Append(@, connection_frame(ws[c].user_id, ws[c].role))]
            /\ ws' = [ws EXCEPT ![c].pc = "receive"]
       ELSE /\ \E pc \in {"ended", "receive"} : ws' = [ws EXCEPT ![c].pc = pc]
            /\ UNCHANGED inbox
    /\ UNCHANGED <<qvars, active_connections, dvars, users>>

\* One round of the read loop: receive_text, json.loads, the reply.  Text
\* that is JSON but no object makes message.get raise, which the outer
\* `except Exception` answers with manager.disconnect.
websocket_receive(c, frame) ==
    /\ ws[c].pc = "receive"
    /\ can_send(c)
    /\ ws[c].nread < MaxFrames
    /\ IF frame = "not_object"
       THEN /\ active_connections' = disconnect(active_connections, c, ws[c].user_id)
            /\ ws' = [ws EXCEPT ![c].pc = "ended", ![c].frame = frame,
                                ![c].nread = @ + 1, ![c].unregistered = @ + 1]
            /\ drop_stable(c)
            /\ UNCHANGED inbox
       ELSE /\ inbox' = [inbox EXCEPT ![c] =
                   CASE frame = "ping" -> Append(@, pong_frame)
                     [] frame \in {"subscribe", "subscribe_no_channel"} ->
                           Append(@, subscribed_frame(frame))
                     [] frame = "not_json" -> Append(@, error_frame)
                     [] OTHER -> @]
            /\ ws' = [ws EXCEPT ![c].frame = frame, ![c].nread = @ + 1]
            /\ UNCHANGED <<active_connections, reqs>>
    /\ UNCHANGED <<queries, notifications, notif_by, nreq, dvars, users>>

\* The client goes away: from now on sends to it fail, and the pending
\* receive_text raises WebSocketDisconnect.
client_close(c) ==
    /\ ws[c].pc \in {"welcome", "receive"}
    /\ ws[c].peer = "up"
    /\ ws' = [ws EXCEPT ![c].peer = "gone"]
    /\ UNCHANGED <<qvars, active_connections, inbox, dvars, users>>

\* except WebSocketDisconnect: manager.disconnect(websocket, user_id)
websocket_disconnect(c) ==
    /\ ws[c].pc = "receive"
    /\ ws[c].peer = "gone"
    /\ active_connections' = disconnect(active_connections, c, ws[c].user_id)
    /\ ws' = [ws EXCEPT ![c].pc = "ended", ![c].unregistered = @ + 1]
    /\ drop_stable(c)
    /\ UNCHANGED <<queries, notifications, notif_by, nreq, inbox, dvars, users>>

\* manager.disconnect(websocket, user_id) is called once more for a
\* connection that its handler has already unregistered.
disconnect_again(c) ==
    /\ ws[c].pc = "ended"
    /\ ws[c].unregistered = 1
    /\ IF disconnect_raises(active_connections, c, ws[c].user_id)
       THEN /\ ws' = [ws EXCEPT ![c].unregistered = @ + 1, ![c].error = "ValueError"]
            /\ UNCHANGED active_connections
       ELSE /\ active_connections' = disconnect(active_connections, c, ws[c].user_id)
            /\ ws' = [ws EXCEPT ![c].unregistered = @ + 1]
    /\ UNCHANGED <<qvars, inbox, dvars, users>>

(***************************************************************************)
(* Deliveries.  A delivery runs from one `await send_json` to the next;    *)
(* other coroutines run in between.                                        *)
(***************************************************************************)
\* A send_personal_message without its `if user_id in ...` (a variant the
\* code does not have): the lookup of a missing key raises.
personal_scan_unchecked(d, t) ==
    IF t.k = 0 THEN [outcome |-> "raised", k |-> t.k, i |-> t.i]
    ELSE IF t.i <= Len(d[t.k].conns)
    THEN [outcome |-> "send", k |-> t.k, i |-> t.i]
    ELSE [outcome |-> "finished", k |-> t.k, i |-> t.i]

\* send_personal_message: `for connection in self.active_connections[user_id]`
\* iterates the list object by index; t.k is the entry that holds the list.
personal_scan(d, t) ==
    IF t.k # 0 /\ t.i <= Len(d[t.k].conns)
    THEN [outcome |-> "send", k |-> t.k, i |-> t.i]
    ELSE [outcome |-> "finished", k |-> t.k, i |-> t.i]

\* The entry dict.items() yields after entry k, or 0 at the end.
next_live(d, k) ==
    IF \E j \in k + 1 .. Len(d) : d[j].live
    THEN CHOOSE j \in k + 1 .. Len(d) : d[j].live /\ \A h \in k + 1 .. j - 1 : ~d[h].live
    ELSE 0

\* broadcast_to_officers: the two nested loops, up to the next send_json.
\* next() of the dict iterator raises RuntimeError when len(dict) is no
\* longer what it was when the iteration began.
RECURSIVE officers_scan(_, _, _, _)
officers_scan(d, k, i, size0) ==
    IF k # 0 /\ startswith_officer(d[k].user_id) /\ i <= Len(d[k].conns)
    THEN [outcome |-> "send", k |-> k, i |-> i]
    ELSE IF used(d) # size0
    THEN [outcome |-> "raised", k |-> k, i |-> i]
    ELSE IF next_live(d, k) = 0
    THEN [outcome |-> "finished", k |-> k, i |-> i]
    ELSE officers_scan(d, next_live(d, k), 1, size0)

\* broadcast: the same two loops over every entry.
RECURSIVE broadcast_scan(_, _, _, _)
broadcast_scan(d, k, i, size0) ==
    IF k # 0 /\ i <= Len(d[k].conns)
    THEN [outcome |-> "send", k |-> k, i |-> i]
    ELSE IF used(d) # size0
    THEN [outcome |-> "raised", k |-> k, i |-> i]
    ELSE IF next_live(d, k) = 0
    THEN [outcome |-> "finished", k |-> k, i |-> i]
    ELSE broadcast_scan(d, next_live(d, k), 1, size0)

scan(d, t) ==
    CASE t.kind = "personal" -> personal_scan(d, t)
      [] t.kind = "officers" -> officers_scan(d, t.k, t.i, t.size0)
      [] OTHER -> broadcast_scan(d, t.k, t.i, t.size0)

\* A delivery that sends again to a connection whose send has failed (a
\* variant the code does not have).
run_retrying(t) ==
    LET r == scan(active_connections, t)
        c == active_connections[r.k].conns[r.i]
    IN  IF r.outcome = "send"
        THEN /\ task' = [t EXCEPT !.status = "running", !.k = r.k,
                                  !.i = IF can_send(c) THEN r.i + 1 ELSE r.i,
                                  !.attempts = Append(@, [chan |-> c, ok |-> can_send(c)]),
                                  !.moved = @ \/ active_connections # t.d0]
             /\ inbox' = IF can_send(c)
                         THEN [inbox EXCEPT ![c] = Append(@, t.message)]
                         ELSE inbox
        ELSE /\ task' = [t EXCEPT !.status = r.outcome,
                                  !.moved = @ \/ active_connections # t.d0]
             /\ UNCHANGED inbox

\* The delivery t runs to its next send_json (whose failure is swallowed by
\* `except: pass`), to its end, or to the RuntimeError.
run(t) ==
    LET r == scan(active_connections, t)
        c == active_connections[r.k].conns[r.i]
    IN  IF r.outcome = "send"
        THEN /\ task' = [t EXCEPT !.status = "running", !.k = r.k, !.i = r.i + 1,
                                  !.attempts = Append(@, [chan |-> c, ok |-> can_send(c)]),
                                  !.moved = @ \/ active_connections # t.d0]
             /\ inbox' = IF can_send(c)
                         THEN [inbox EXCEPT ![c] = Append(@, t.message)]
                         ELSE inbox
        ELSE /\ task' = [t EXCEPT !.status = r.outcome,
                                  !.moved = @ \/ active_connections # t.d0]
             /\ UNCHANGED inbox

\* manager.send_personal_message(message, user_id) is called.
send_personal_message(message, user_id) ==
    run([NoTask EXCEPT !.kind = "personal", !.message = message,
                       !.k = key_index(active_connections, user_id),
                       !.to = user_id, !.d0 = active_connections])

\* manager.broadcast_to_officers(message) is called.
broadcast_to_officers(message) ==
    run([NoTask EXCEPT !.kind = "officers", !.message = message,
                       !.size0 = used(active_connections),
                       !.d0 = active_connections])

\* manager.broadcast(message) is called.
broadcast(message) ==
    run([NoTask EXCEPT !.kind = "all", !.message = message,
                       !.size0 = used(active_connections),
                       !.d0 = active_connections])

\* A helper is called (no delivery is in progress).
may_deliver ==
    /\ task.status # "running"
    /\ ndeliv < MaxDeliveries
    /\ ndeliv' = ndeliv + 1

\* send_notification(user_id, notification), for a stored notification.
send_notification(user_id, n) ==
    /\ may_deliver
    /\ n \in 1 .. Len(notifications)
    /\ send_personal_message(notification_frame(notifications[n]), user_id)
    /\ UNCHANGED <<qvars, active_connections, ws, users>>

\* notify_new_query(query_data), for a stored query.
notify_new_query(q) ==
    /\ may_deliver
    /\ q \in 1 .. Len(queries)
    /\ broadcast_to_officers(new_query_frame(queries[q]))
    /\ UNCHANGED <<qvars, active_connections, ws, users>>

\* notify_query_reply(farmer_id, query_data), for a stored query.
notify_query_reply(farmer_id, q) ==
    /\ may_deliver
    /\ q \in 1 .. Len(queries)
    /\ send_personal_message(query_reply_frame(queries[q]), farmer_id)
    /\ UNCHANGED <<qvars, active_connections, ws, users>>

\* The delivery in progress resumes after its send_json.
deliver_step ==
    /\ task.status = "running"
    /\ run(task)
    /\ UNCHANGED <<qvars, active_connections, ws, ndeliv, users>>

(***************************************************************************)
(* Specifications.                                                         *)
(***************************************************************************)
\* The request handlers of routes/queries.py, with every input.
NextQueries ==
    \/ \E s \in Slots, u \in Users, text \in QueryTextLens, b \in BodyFarmerIds :
          submit_query_start(s, u, text, b)
    \/ \E s \in Slots : submit_query_insert(s)
    \/ \E s \in Slots : submit_query_notify(s)
    \/ \E s \in Slots, u \in Users, q \in QueryIdInputs :
          assign_query_start(s, u, q)
    \/ \E s \in Slots : assign_query_update(s)
    \/ \E s \in Slots : assign_query_notify(s)
    \/ \E s \in Slots, u \in Users, q \in QueryIdInputs,
          text \in ReplyTextLens, m \in BOOLEAN :
          reply_to_query_start(s, u, q, text, m)
    \/ \E s \in Slots : reply_to_query_update(s)
    \/ \E s \in Slots : reply_to_query_notify(s)
    \/ \E s \in Slots : respond(s)

Spec == Init /\ [][NextQueries]_vars

\* The reading specification: farmers submit valid queries under their own
\* id, one officer assigns and replies, and every user reads.
Farmers == { u \in Users : u.role = "farmer" }
StatusInputs == {None, "open", "assigned"}
LimitInputs == {1, DefaultLimit}

NextReads ==
    \/ \E s \in Slots, u \in Farmers :
          submit_query_start(s, u, MinQueryLen, u.user_id)
    \/ \E s \in Slots : submit_query_insert(s)
    \/ \E s \in Slots : submit_query_notify(s)
    \/ \E s \in Slots, q \in 1 .. MaxQueries :
          assign_query_start(s, [user_id |-> "65b1", role |-> "officer"], q)
    \/ \E s \in Slots : assign_query_update(s)
    \/ \E s \in Slots : assign_query_notify(s)
    \/ \E s \in Slots, u \in Users, q \in QueryIdInputs :
          get_query_details_start(s, u, q)
    \/ \E s \in Slots : get_query_details_find(s)
    \/ \E s \in Slots, u \in Users, status \in StatusInputs, limit \in LimitInputs :
          get_query_history_start(s, u, status, limit)
    \/ \E s \in Slots : get_query_history_to_list(s)
    \/ \E s \in Slots : respond(s)

SpecReads == Init /\ [][NextReads]_vars

\* The registrations alone, with every body.
NextAuth ==
    \/ \E s \in Slots, user \in UserCreate : register_user_start(s, user)
    \/ \E s \in Slots : register_user_find_one(s)
    \/ \E s \in Slots : register_user_insert_one(s)
    \/ \E s \in Slots : respond(s)

SpecAuth == Init /\ [][NextAuth]_vars

\* The realtime specification: one farmer submits and one officer assigns
\* and replies; requests are valid, name stored queries and are served one
\* at a time.  A helper is called the way the data flow of the handlers
\* would call it: with a stored notification for its recipient, or with a
\* stored query for its farmer.
RtFarmer == [user_id |-> "65a1", role |-> "farmer"]
RtOfficer == [user_id |-> "65b1", role |-> "officer"]
RtTokens == { t \in Tokens : t.sub # "65a2" }

\* The request handlers, the WebSocket handlers and the deliveries.
NextRealtime ==
    \/ /\ nreq < RtRequests
       /\ submit_query_start(1, RtFarmer, MinQueryLen, RtFarmer.user_id)
    \/ submit_query_insert(1)
    \/ submit_query_notify(1)
    \/ \E q \in 1 .. Len(queries) :
          /\ nreq < RtRequests
          /\ assign_query_start(1, RtOfficer, q)
    \/ assign_query_update(1)
    \/ assign_query_notify(1)
    \/ \E q \in 1 .. Len(queries), m \in BOOLEAN :
          /\ nreq < RtRequests
          /\ reply_to_query_start(1, RtOfficer, q, MinReplyLen, m)
    \/ reply_to_query_update(1)
    \/ reply_to_query_notify(1)
    \/ respond(1)
    \/ \E c \in Channels, token \in RtTokens : websocket_handshake(c, token)
    \/ \E c \in Channels : websocket_welcome(c)
    \/ \E c \in Channels : client_close(c)
    \/ \E c \in Channels : websocket_disconnect(c)
    \/ \E n \in 1 .. Len(notifications) :
          send_notification(notifications[n].user_id, n)
    \/ \E q \in 1 .. Len(queries) : notify_new_query(q)
    \/ \E q \in 1 .. Len(queries) : notify_query_reply(queries[q].farmer_id, q)
    \/ deliver_step

SpecRealtime == Init /\ [][NextRealtime]_vars

\* The messages the callers of the manager send in SpecDelivery.
Messages == { [type |-> "notification", data |-> [notification_type |-> "system"]] }
DlTokens == { t \in Tokens : t.valid /\ t.sub \in {"65a1", "65b1", "officer_65b2"} }

\* A caller of the manager's three delivery methods.
call_send_personal_message(message, user_id) ==
    /\ may_deliver
    /\ send_personal_message(message, user_id)
    /\ UNCHANGED <<qvars, active_connections, ws, users>>

call_broadcast_to_officers(message) ==
    /\ may_deliver
    /\ broadcast_to_officers(message)
    /\ UNCHANGED <<qvars, active_connections, ws, users>>

call_broadcast(message) ==
    /\ may_deliver
    /\ broadcast(message)
    /\ UNCHANGED <<qvars, active_connections, ws, users>>

\* The connection manager: connections come and go while a delivery runs.
NextDelivery ==
    \/ \E c \in Channels, token \in DlTokens : websocket_handshake(c, token)
    \/ \E c \in Channels : websocket_welcome(c)
    \/ \E c \in Channels : client_close(c)
    \/ \E c \in Channels : websocket_disconnect(c)
    \/ \E m \in Messages, u \in UserIds : call_send_personal_message(m, u)
    \/ \E m \in Messages : call_broadcast_to_officers(m)
    \/ \E m \in Messages : call_broadcast(m)
    \/ deliver_step

SpecDelivery == Init /\ [][NextDelivery]_vars

\* The connection handlers alone, with every token and inbound frame.
NextSocket ==
    \/ \E c \in Channels, token \in Tokens : websocket_handshake(c, token)
    \/ \E c \in Channels : websocket_welcome(c)
    \/ \E c \in Channels, frame \in InboundFrames : websocket_receive(c, frame)
    \/ \E c \in Channels : client_close(c)
    \/ \E c \in Channels : websocket_disconnect(c)

SpecSocket == Init /\ [][NextSocket]_vars

\* The connection handlers and a caller that unregisters a connection again.
NextUnregister ==
    \/ \E c \in Channels, token \in DlTokens : websocket_handshake(c, token)
    \/ \E c \in Channels : websocket_welcome(c)
    \/ \E c \in Channels, frame \in InboundFrames : websocket_receive(c, frame)
    \/ \E c \in Channels : client_close(c)
    \/ \E c \in Channels : websocket_disconnect(c)
    \/ \E c \in Channels : disconnect_again(c)

SpecUnregister == Init /\ [][NextUnregister]_vars

(***************************************************************************)
(* Vocabulary of the properties.                                           *)
(***************************************************************************)
Done(s) == reqs[s].pc = "done"
Succeeded(s) == Done(s) /\ reqs[s].code \in {200, 201}

\* The notifications the request numbered rid has recorded.
NotifsOf(rid) == { i \in 1 .. Len(notifications) : notif_by[i] = rid }

\* The queries the request numbered rid has created (a query's created_at
\* is the time of the request that inserted it).
QueriesOf(rid) == { q \in 1 .. Len(queries) : queries[q].created_at = rid }

\* The handler of slot s takes the step that leaves pc.
Steps(s, pc) == reqs[s].pc = pc /\ reqs'[s].pc # pc

\* The query store is unchanged except, possibly, for document q.
OnlyQueryChanged(q) ==
    /\ Len(queries') = Len(queries)
    /\ \A other \in 1 .. Len(queries) : other # q => queries'[other] = queries[other]

(***************************************************************************)
(* C1.  assign on a query whose status is already assigned or resolved     *)
(* fails with a Conflict error (409), leaves assigned_to and status of     *)
(* that query unchanged, and records no notification.                      *)
(* The handler's filter is the _id alone: the assign is applied.           *)
(***************************************************************************)
C1_AssignOnAssignedIsConflict ==
    \A s \in Slots :
        (reqs[s].op = "assign" /\ reqs[s].pre.status \in {"assigned", "resolved"})
        => /\ Done(s) /\ reqs[s].code = 409
           /\ queries[reqs[s].query_id].assigned_to = reqs[s].pre.assigned_to
           /\ queries[reqs[s].query_id].status = reqs[s].pre.status
           /\ NotifsOf(reqs[s].rid) = {}

(***************************************************************************)
(* C2.  When two officers run assign concurrently on the same open query,  *)
(* exactly one call succeeds and the other fails with Conflict;            *)
(* assigned_to ends as the id of the officer whose call succeeded and      *)
(* exactly one query_assigned notification is recorded.                    *)
(* Two requests are concurrent on an open query when each was accepted     *)
(* while the query was still open.                                         *)
(***************************************************************************)
ConcurrentAssigns(s1, s2) ==
    /\ s1 # s2
    /\ reqs[s1].op = "assign" /\ reqs[s2].op = "assign"
    /\ reqs[s1].query_id = reqs[s2].query_id
    /\ reqs[s1].caller # reqs[s2].caller
    /\ reqs[s1].caller.role = "officer" /\ reqs[s2].caller.role = "officer"
    /\ reqs[s1].at_start.status = "open" /\ reqs[s2].at_start.status = "open"
    /\ Done(s1) /\ Done(s2)

C2_ConcurrentAssignOneWinner ==
    \A s1, s2 \in Slots :
        ConcurrentAssigns(s1, s2)
        => /\ \E w, l \in {s1, s2} :
                 /\ w # l
                 /\ reqs[w].code = 200
                 /\ reqs[l].code = 409
                 /\ queries[reqs[w].query_id].assigned_to = reqs[w].caller.user_id
           /\ Cardinality(NotifsOf(reqs[s1].rid) \cup NotifsOf(reqs[s2].rid)) = 1

(***************************************************************************)
(* C6.  submit with a query_text shorter than 10 characters is rejected    *)
(* with a validation error (422) and creates neither a query nor a         *)
(* notification; submit with 10 or more characters creates exactly one     *)
(* query, in status open with assigned_to null, and records exactly one    *)
(* notification, of type query_submitted, addressed to "all_officers".     *)
(***************************************************************************)
C6_Requests ==
    \A s \in Slots :
        reqs[s].op = "submit"
        => IF reqs[s].text < 10
           THEN /\ Done(s) /\ reqs[s].code = 422
                /\ QueriesOf(reqs[s].rid) = {}
                /\ NotifsOf(reqs[s].rid) = {}
           ELSE /\ reqs[s].pc = "insert" => QueriesOf(reqs[s].rid) = {}
                /\ reqs[s].pc \in {"notify", "done"}
                      => QueriesOf(reqs[s].rid) = {reqs[s].query_id}
                /\ reqs[s].pc \in {"insert", "notify"} => NotifsOf(reqs[s].rid) = {}
                /\ Done(s)
                      => /\ reqs[s].code = 201
                         /\ \E i \in 1 .. Len(notifications) :
                               /\ NotifsOf(reqs[s].rid) = {i}
                               /\ notifications[i].notification_type = "query_submitted"
                               /\ notifications[i].user_id = "all_officers"
                               /\ notifications[i].query_id = reqs[s].query_id

C6_Insert ==
    \A s \in Slots :
        (reqs[s].op = "submit" /\ Steps(s, "insert"))
        => /\ Len(queries') = Len(queries) + 1
           /\ \A q \in 1 .. Len(queries) : queries'[q] = queries[q]
           /\ queries'[Len(queries')].status = "open"
           /\ queries'[Len(queries')].assigned_to = None

C6_SubmitValidation == [] C6_Requests /\ [][C6_Insert]_vars

\* A rejected submit and an accepted one, both answered.
C6_Witness ==
    \E s1, s2 \in Slots :
        /\ reqs[s1].op = "submit" /\ reqs[s1].text = 9 /\ reqs[s1].code = 422
        /\ reqs[s2].op = "submit" /\ reqs[s2].text = 10 /\ reqs[s2].code = 201

(***************************************************************************)
(* C7.  A successful assign by officer A on an open query sets status to   *)
(* assigned and assigned_to to A's id, changes no other query's fields,    *)
(* and records exactly one notification, of type query_assigned, whose     *)
(* recipient is that query's farmer_id.                                    *)
(***************************************************************************)
C7_Requests ==
    \A s \in Slots :
        (reqs[s].op = "assign" /\ reqs[s].pre.status = "open")
        => /\ reqs[s].result.status = "assigned"
           /\ reqs[s].result.assigned_to = reqs[s].caller.user_id
           /\ reqs[s].pc = "notify" => NotifsOf(reqs[s].rid) = {}
           /\ Done(s)
                 => /\ reqs[s].code = 200
                    /\ \E i \in 1 .. Len(notifications) :
                          /\ NotifsOf(reqs[s].rid) = {i}
                          /\ notifications[i].notification_type = "query_assigned"
                          /\ notifications[i].user_id = reqs[s].pre.farmer_id
                          /\ notifications[i].query_id = reqs[s].query_id

C7_Update ==
    \A s \in Slots :
        LET q == reqs[s].query_id
        IN  (/\ reqs[s].op = "assign" /\ Steps(s, "update")
             /\ q \in 1 .. Len(queries) /\ queries[q].status = "open")
            => /\ OnlyQueryChanged(q)
               /\ queries'[q].status = "assigned"
               /\ queries'[q].assigned_to = reqs[s].caller.user_id
               /\ queries'[q] = [queries[q] EXCEPT
                                    !.status = "assigned",
                                    !.assigned_to = reqs[s].caller.user_id,
                                    !.updated_at = queries'[q].updated_at]
               /\ reqs'[s].result = queries'[q]

C7_AssignOpenQuery == [] C7_Requests /\ [][C7_Update]_vars

\* An officer's assign on an open query has been answered while a second
\* query is stored.
C7_Witness ==
    \E s \in Slots :
        /\ reqs[s].op = "assign" /\ reqs[s].pre.status = "open" /\ Done(s)
        /\ Len(queries) = 2

(***************************************************************************)
(* C8.  A successful reply stores the reply text on the query; with        *)
(* mark_resolved true it also sets status to resolved and records one      *)
(* notification of type query_resolved (never query_replied) for the       *)
(* query's farmer_id; with mark_resolved false it leaves status unchanged  *)
(* and records one notification of type query_replied.                     *)
(***************************************************************************)
C8_Requests ==
    \A s \in Slots :
        (reqs[s].op = "reply" /\ reqs[s].pre # NoDoc)
        => /\ reqs[s].result.reply = reqs[s].text
           /\ reqs[s].result.status =
                 IF reqs[s].mark_resolved THEN "resolved" ELSE reqs[s].pre.status
           /\ reqs[s].pc = "notify" => NotifsOf(reqs[s].rid) = {}
           /\ Done(s)
                 => /\ reqs[s].code = 200
                    /\ \E i \in 1 .. Len(notifications) :
                          /\ NotifsOf(reqs[s].rid) = {i}
                          /\ notifications[i].notification_type =
                                IF reqs[s].mark_resolved
                                THEN "query_resolved" ELSE "query_replied"
                          /\ notifications[i].user_id = reqs[s].pre.farmer_id
                          /\ notifications[i].query_id = reqs[s].query_id

C8_Update ==
    \A s \in Slots :
        LET q == reqs[s].query_id
        IN  (reqs[s].op = "reply" /\ Steps(s, "update") /\ q \in 1 .. Len(queries))
            => /\ OnlyQueryChanged(q)
               /\ queries'[q].reply = reqs[s].text
               /\ queries'[q].status =
                     IF reqs[s].mark_resolved THEN "resolved" ELSE queries[q].status
               /\ reqs'[s].result = queries'[q]

C8_ReplyStoresAndNotifies == [] C8_Requests /\ [][C8_Update]_vars

\* A resolving reply on an assigned query has been answered.
C8_Witness ==
    \E s \in Slots :
        /\ reqs[s].op = "reply" /\ Done(s) /\ reqs[s].code = 200
        /\ reqs[s].mark_resolved /\ reqs[s].pre.status = "assigned"
        /\ queries[reqs[s].query_id].status = "resolved"

(***************************************************************************)
(* C9.  reply is applied only to a query whose status is assigned or       *)
(* resolved; reply on a query in any other status (open or closed) fails   *)
(* with InvalidTransition, changes no field of the query (status, reply,   *)
(* updated_at) and records no notification.                                *)
(* The handler's filter is the _id alone: the reply is applied.            *)
(***************************************************************************)
C9_ReplyOnlyWhenAssignedOrResolved ==
    \A s \in Slots :
        (reqs[s].op = "reply" /\ reqs[s].pre.status \in {"open", "closed"})
        => /\ Done(s) /\ reqs[s].code \notin {200, 201}
           /\ queries[reqs[s].query_id] = reqs[s].pre
           /\ NotifsOf(reqs[s].rid) = {}

(***************************************************************************)
(* C10.  assign or reply on a query id that does not exist fails with      *)
(* NotFound (404), changes no stored query and records no notification.    *)
(***************************************************************************)
C10_Requests ==
    \A s \in Slots :
        (reqs[s].op \in {"assign", "reply"} /\ Done(s) /\ reqs[s].code = 404)
        => /\ NotifsOf(reqs[s].rid) = {}
           /\ reqs[s].pre = NoDoc
           /\ reqs[s].result = NoDoc

C10_Update ==
    \A s \in Slots :
        (/\ reqs[s].op \in {"assign", "reply"} /\ Steps(s, "update")
         /\ reqs[s].query_id # InvalidId
         /\ reqs[s].query_id \notin 1 .. Len(queries))
        => /\ reqs'[s].pc = "done" /\ reqs'[s].code = 404
           /\ queries' = queries
           /\ notifications' = notifications

C10_UnknownIdIsNotFound == [] C10_Requests /\ [][C10_Update]_vars

\* An assign and a reply on an id that is not stored, both answered 404
\* while a query is stored.
C10_Witness ==
    \E s1, s2 \in Slots :
        /\ reqs[s1].op = "assign" /\ reqs[s1].code = 404
        /\ reqs[s2].op = "reply" /\ reqs[s2].code = 404
        /\ Len(queries) >= 1

(***************************************************************************)
(* Vocabulary of the realtime properties.                                  *)
(***************************************************************************)
\* The notification type a successful request of slot s records.
TypeOf(s) ==
    CASE reqs[s].op = "submit" -> "query_submitted"
      [] reqs[s].op = "assign" -> "query_assigned"
      [] reqs[s].op = "reply" ->
            IF reqs[s].mark_resolved THEN "query_resolved" ELSE "query_replied"
      [] OTHER -> "system"

\* Client c has received j frames of type `notification` whose data is the
\* stored notification i.
Received(c, i) ==
    Cardinality({ j \in 1 .. Len(inbox[c]) :
                     inbox[c][j] = [type |-> "notification", data |-> notifications[i]] })

\* The connections of user role/id that were registered during the whole of
\* the request of slot s, completed their handshake and whose client is
\* still there.
StableOpen(s) ==
    { c \in reqs[s].stable : ws[c].pc = "receive" /\ ws[c].peer = "up" }

\* s is a sequence that t extends.
IsPrefix(s, t) ==
    /\ Len(s) <= Len(t)
    /\ \A i \in 1 .. Len(s) : t[i] = s[i]

(***************************************************************************)
(* C3.  For every successful submit, assign and reply, the Notification    *)
(* record is persisted before any live-delivery attempt for that event is  *)
(* made, and a failure of live delivery never prevents or undoes that      *)
(* persistence nor fails the triggering request.                           *)
(* In the model: a request that has succeeded has its record in the store; *)
(* every `notification` frame that is being delivered or has been received *)
(* carries a record that is in the store; stored records are never removed *)
(* or changed; a step of a delivery, failed send included, changes neither *)
(* the store nor any request, and a personal delivery never raises.        *)
(***************************************************************************)
C3_Persisted ==
    /\ \A s \in Slots :
          Succeeded(s)
          => \E i \in NotifsOf(reqs[s].rid) :
                /\ notifications[i].notification_type = TypeOf(s)
                /\ notifications[i].query_id = reqs[s].query_id
    /\ \A c \in Channels : \A j \in 1 .. Len(inbox[c]) :
          inbox[c][j].type = "notification"
          => \E i \in 1 .. Len(notifications) : inbox[c][j].data = notifications[i]
    /\ (task.status # "none" /\ task.message.type = "notification")
          => \E i \in 1 .. Len(notifications) : task.message.data = notifications[i]
    /\ task.kind = "personal" => task.status # "raised"

C3_Step ==
    /\ IsPrefix(notifications, notifications')
    /\ IsPrefix(notif_by, notif_by')
    /\ task' # task
          => /\ notifications' = notifications
             /\ queries' = queries
             /\ reqs' = reqs

C4_AssignReplyDelivered ==
    \A s \in Slots :
        (Succeeded(s) /\ reqs[s].op \in {"assign", "reply"})
        => \A c \in StableOpen(s) :
              ws[c].user_id = reqs[s].pre.farmer_id
              => \E i \in NotifsOf(reqs[s].rid) : Received(c, i) = 1

(***************************************************************************)
(* C5.  When a query is submitted, the officer broadcast delivers a        *)
(* `notification` frame to every registered channel of every user whose    *)
(* role is officer (the role resolved from the validated token at          *)
(* registration, not from the form of the user id), and to no channel of a *)
(* farmer.                                                                 *)
(* submit_query broadcasts nothing; notify_new_query sends a frame of type *)
(* `new_query` and selects its receivers by the "officer_" prefix of the   *)
(* user id.                                                                *)
(***************************************************************************)
C5_SubmitBroadcastToOfficers ==
    \A s \in Slots :
        (Succeeded(s) /\ reqs[s].op = "submit")
        => /\ \A c \in StableOpen(s) :
                 ws[c].role = "officer"
                 => \E i \in NotifsOf(reqs[s].rid) : Received(c, i) >= 1
           /\ \A c \in Channels :
                 ws[c].role = "farmer"
                 => \A i \in NotifsOf(reqs[s].rid) : Received(c, i) = 0

(***************************************************************************)
(* C17.  For each query, the notifications recorded for its farmer appear  *)
(* in the order the status transitions were applied to the query: when an  *)
(* assign is applied before a reply on the same query, the query_assigned  *)
(* notification is persisted before the query_replied / query_resolved one *)
(* in every interleaving of the two requests.                              *)
(* Each handler inserts its notification in a step of its own, after its   *)
(* update: the reply's insert may overtake the assign's.                   *)
(***************************************************************************)
\* The assign of slot a was applied to the query, and the reply of slot r
\* was applied next (the reply found the document the assign had written).
AssignThenReply(a, r) ==
    /\ reqs[a].op = "assign" /\ reqs[a].pc \in {"notify", "done"}
    /\ reqs[r].op = "reply" /\ reqs[r].pc \in {"notify", "done"}
    /\ reqs[a].query_id = reqs[r].query_id
    /\ reqs[a].code \in {0, 200} /\ reqs[r].code \in {0, 200}
    /\ reqs[a].pre # NoDoc
    /\ reqs[r].pre = reqs[a].result

C17_NotificationsInTransitionOrder ==
    \A a, r \in Slots :
        AssignThenReply(a, r)
        => \A j \in NotifsOf(reqs[r].rid) :
              \E i \in NotifsOf(reqs[a].rid) : i < j

(***************************************************************************)
(* C18.  A query's status never moves backwards in the order               *)
(* open < assigned < resolved: no sequence of submit, assign and reply     *)
(* takes a query from resolved to assigned or open, or from assigned to    *)
(* open.                                                                   *)
(* assign_query sets status to assigned whatever the status was.           *)
(***************************************************************************)
StatusRank(st) ==
    CASE st = "open" -> 1
      [] st = "assigned" -> 2
      [] st = "resolved" -> 3
      [] OTHER -> 4

C18_Monotone ==
    \A q \in 1 .. Len(queries) :
        StatusRank(queries'[q].status) >= StatusRank(queries[q].status)

C18_StatusNeverMovesBack == [][C18_Monotone]_vars

(***************************************************************************)
(* C19.  In every reachable state and for every query, assigned_to is      *)
(* non-null exactly when status is assigned or resolved.                   *)
(* reply_to_query with mark_resolved resolves a query that is still open.  *)
(***************************************************************************)
C19_AssignedToIffAssignedOrResolved ==
    \A q \in 1 .. Len(queries) :
        (queries[q].assigned_to # None) <=> (queries[q].status \in {"assigned", "resolved"})

(***************************************************************************)
(* C20.  submit succeeds only when the caller's role is farmer; a submit   *)
(* by an officer or admin is rejected and creates neither a query nor a    *)
(* notification.                                                           *)
(* submit_query depends on get_current_user alone, with no role check.     *)
(***************************************************************************)
C20_SubmitOnlyByFarmer ==
    \A s \in Slots :
        (reqs[s].op = "submit" /\ reqs[s].caller.role # "farmer")
        => /\ reqs[s].code \notin {200, 201}
           /\ QueriesOf(reqs[s].rid) = {}
           /\ NotifsOf(reqs[s].rid) = {}

(***************************************************************************)
(* Vocabulary of the connection properties.                                *)
(***************************************************************************)
\* The user ids under which connection c is in the registry.
RegisteredUnder(c) ==
    { active_connections[k].user_id : k \in
        { k \in 1 .. Len(active_connections) :
            /\ active_connections[k].live
            /\ \E i \in 1 .. Len(active_connections[k].conns) :
                  active_connections[k].conns[i] = c } }

\* The handshake of c was given a token that does not validate or that
\* carries no user id.
BadToken(c) == ~ws[c].token.valid \/ ws[c].token.sub = None

(***************************************************************************)
(* C14.  A handshake whose token is invalid, or whose token carries no     *)
(* user id, is closed with the policy-violation code 1008 without the      *)
(* channel ever being registered, without any application frame being      *)
(* sent, and without the read loop being entered; a channel is registered  *)
(* only after its token was validated, and only under the user id of that  *)
(* token.                                                                  *)
(***************************************************************************)
C14_Handshake ==
    \A c \in Channels :
        /\ (ws[c].pc # "idle" /\ BadToken(c))
              => /\ ws[c].pc = "ended"
                 /\ ws[c].close_code = 1008
                 /\ c \notin Registered
                 /\ ws[c].unregistered = 0
                 /\ inbox[c] = <<>>
                 /\ ws[c].nread = 0
        /\ c \in Registered
              => /\ ws[c].pc # "idle"
                 /\ ws[c].token.valid
                 /\ RegisteredUnder(c) = {ws[c].token.sub}
                 /\ ws[c].close_code = 0

\* A connection enters the registry only in the step that validates its
\* token, and a rejected handshake changes nothing else.
C14_Step ==
    \A c \in Channels :
        /\ (c \notin Registered /\ c \in Registered')
              => ws[c].pc = "idle" /\ ws'[c].pc = "welcome" /\ ws'[c].token.valid
        /\ (ws[c].pc = "idle" /\ ws'[c].pc = "ended")
              => active_connections' = active_connections /\ inbox' = inbox

C14_BadTokenNeverRegistered == [] C14_Handshake /\ [][C14_Step]_vars

\* A handshake was rejected for an invalid token while another connection,
\* whose token validated, is registered and in its read loop.
C14_Witness ==
    \E c1, c2 \in Channels :
        /\ ws[c1].pc = "ended" /\ ~ws[c1].token.valid /\ ws[c1].close_code = 1008
        /\ ws[c2].pc = "receive" /\ ws[c2].token.valid /\ c2 \in Registered

(***************************************************************************)
(* C15.  Every inbound frame that is not a valid message envelope (a JSON  *)
(* object with a type field) - including text that is not JSON and JSON    *)
(* values that are not objects - is answered with an error frame           *)
(* {type: error, message: Invalid JSON}, and the channel stays open and    *)
(* stays registered.                                                       *)
(* Only json.JSONDecodeError is answered so: JSON that is no object ends   *)
(* the handler, and an object without a type is not answered at all.       *)
(***************************************************************************)
C15_Malformed ==
    \A c \in Channels :
        (/\ ws'[c].nread = ws[c].nread + 1
         /\ ws'[c].frame \in {"not_json", "not_object", "no_type"})
        => /\ inbox'[c] = Append(inbox[c], [type |-> "error", message |-> "Invalid JSON"])
           /\ ws'[c].pc = "receive"
           /\ c \in Registered'

C15_MalformedFrameGetsError == [][C15_Malformed]_vars

(***************************************************************************)
(* C16.  For every channel that was registered, the end of its connection  *)
(* (client close, read failure or send failure) triggers unregister for    *)
(* that channel exactly once: never zero times and never twice.            *)
(* The welcome frame is sent outside the handler's try block: when that    *)
(* send raises, the handler ends without manager.disconnect.               *)
(***************************************************************************)
C16_UnregisteredExactlyOnce ==
    \A c \in Channels :
        /\ ws[c].unregistered <= 1
        /\ (ws[c].pc = "ended" /\ ws[c].token.valid /\ ws[c].token.sub # None)
              => ws[c].unregistered = 1

(***************************************************************************)
(* Vocabulary of the delivery properties.                                  *)
(***************************************************************************)
\* The registry d has no entry for user u.
NoEntry(d, u) == \A k \in 1 .. Len(d) : ~(d[k].live /\ d[k].user_id = u)

\* The list of connections the registry d holds for user u.
ConnsOf(d, u) ==
    IF NoEntry(d, u) THEN <<>>
    ELSE d[CHOOSE k \in 1 .. Len(d) : d[k].live /\ d[k].user_id = u].conns

\* The sequence l without the connection c.
Without(l, c) == SelectSeq(l, LAMBDA x : x # c)

\* The delivery set of a delivery called on the registry d.
TargetSet(d, kind, to) ==
    { c \in Channels : \E k \in 1 .. Len(d) :
        /\ d[k].live
        /\ \E i \in 1 .. Len(d[k].conns) : d[k].conns[i] = c
        /\ CASE kind = "personal" -> d[k].user_id = to
             [] kind = "officers" -> d[k].user_id \in {"officer_65b2"}
             [] OTHER -> TRUE }

\* The connections the delivery has sent to, and those that got the message.
AttemptedSet == { task.attempts[a].chan : a \in 1 .. Len(task.attempts) }
DeliveredSet ==
    { c \in Channels : \E j \in 1 .. Len(inbox[c]) : inbox[c][j] = task.message }

(***************************************************************************)
(* C11.  unregister(user, channel) removes exactly that channel: every     *)
(* other channel of the same user stays registered and still receives      *)
(* later sendTo messages, the channels of every other user are unchanged,  *)
(* and when the removed channel was the user's last one the user's entry   *)
(* is removed so that no later send or broadcast reaches it.               *)
(***************************************************************************)
\* No entry of the registry is empty, and a delivery that found the
\* registry as it was when it was called has sent to exactly its delivery
\* set, each open connection of which got the message.
C11_Registry ==
    /\ \A k \in 1 .. Len(active_connections) :
          active_connections[k].live <=> active_connections[k].conns # <<>>
    /\ \A u \in UserIds : NoEntry(active_connections, u) <=> ConnsOf(active_connections, u) = <<>>
    /\ (task.status = "finished" /\ ~task.moved)
          => /\ AttemptedSet = TargetSet(task.d0, task.kind, task.to)
             /\ \A a \in 1 .. Len(task.attempts) :
                   task.attempts[a].ok => task.attempts[a].chan \in DeliveredSet

\* The step that unregisters c removes c alone; a send goes to a
\* connection that is registered.
C11_Step ==
    /\ \A c \in Channels :
          (c \in Registered /\ c \notin Registered')
          => /\ Registered' = Registered \ {c}
             /\ \A u \in UserIds :
                   ConnsOf(active_connections', u) = Without(ConnsOf(active_connections, u), c)
    /\ (task' # task /\ task'.status = "running")
          => task'.attempts[Len(task'.attempts)].chan \in Registered

C11_UnregisterRemovesExactlyThat == [] C11_Registry /\ [][C11_Step]_vars

\* Two connections of one user were registered, the first was unregistered,
\* and a sendTo called after that has reached the second one.
C11_Witness ==
    \E a, b \in Channels :
        /\ a # b /\ ws[a].user_id = ws[b].user_id
        /\ ws[a].pc = "ended" /\ ws[a].unregistered = 1
        /\ b \in Registered
        /\ task.kind = "personal" /\ task.to = ws[b].user_id
        /\ task.status = "finished"
        /\ TargetSet(task.d0, task.kind, task.to) = {b}
        /\ task.attempts = <<[chan |-> b, ok |-> TRUE]>>

(***************************************************************************)
(* C12.  sendTo for a user with no registered channel returns without      *)
(* raising any error, sends no frame, leaves the registry unchanged (it    *)
(* does not create an entry for that user), and the notification stays     *)
(* persisted.                                                              *)
(***************************************************************************)
C12_NoRecipient ==
    (task.kind = "personal" /\ NoEntry(task.d0, task.to))
    => /\ task.status = "finished"
       /\ task.attempts = <<>>
       /\ task.message.type = "notification"
             => \E i \in 1 .. Len(notifications) : task.message.data = notifications[i]

C12_Call ==
    (task' # task /\ task'.kind = "personal" /\ NoEntry(task'.d0, task'.to))
    => /\ active_connections' = active_connections
       /\ NoEntry(active_connections', task'.to)
       /\ inbox' = inbox
       /\ notifications' = notifications

C12_SendToAbsentUser == [] C12_NoRecipient /\ [][C12_Call]_vars

\* The notification of a farmer who has no connection has been sent for
\* while another user is connected.
C12_Witness ==
    /\ task.kind = "personal" /\ task.status = "finished"
    /\ task.to \in UserIds
    /\ NoEntry(task.d0, task.to)
    /\ \E c \in Channels : c \in Registered /\ ws[c].pc = "receive"
    /\ task.message.type = "notification"
    /\ \E i \in 1 .. Len(notifications) :
          notifications[i].user_id = task.to /\ task.message.data = notifications[i]

(***************************************************************************)
(* C13.  In sendTo and in the broadcasts, a send failure on one channel    *)
(* does not abort delivery: every other channel of the delivery set still  *)
(* gets the message, the failure is not raised to the caller, and the      *)
(* failing channel is not removed from the registry by the send.           *)
(* The loops iterate the registry's own list and dict across their awaits: *)
(* when the handler of the failing channel unregisters it meanwhile, the   *)
(* list iteration skips the next channel and the dict iteration raises     *)
(* RuntimeError.                                                           *)
(***************************************************************************)
\* The connections whose send has failed in the delivery.
FailedSet == { task.attempts[a].chan : a \in { a \in 1 .. Len(task.attempts) : ~task.attempts[a].ok } }

\* A send of the delivery has failed, and since the delivery was called
\* the registry has changed by nothing but the unregistration of
\* connections whose send had failed.
OnlyFailuresLeft ==
    /\ FailedSet # {}
    /\ Registered \subseteq TargetSet(task.d0, "all", None)
    /\ TargetSet(task.d0, "all", None) \ Registered \subseteq FailedSet

C13_FailureIsIsolated ==
    OnlyFailuresLeft
    => /\ task.status # "raised"
       /\ task.status = "finished"
             => \A c \in TargetSet(task.d0, task.kind, task.to) :
                   (c \in Registered /\ ws[c].peer = "up" /\ ws[c].pc = "receive")
                   => c \in AttemptedSet

(***************************************************************************)
(* C24.  In every state the registry can be observed in, no user id maps   *)
(* to an empty channel collection, and no channel appears more than once   *)
(* in the registry.                                                        *)
(* (A deleted key is not an entry of the dict: the model keeps it as a     *)
(* dead slot, whose list is empty.)                                        *)
(***************************************************************************)
C24_NoEmptyNoDuplicate ==
    /\ \A k \in 1 .. Len(active_connections) :
          active_connections[k].live => active_connections[k].conns # <<>>
    /\ \A k1, k2 \in 1 .. Len(active_connections) :
          (/\ active_connections[k1].live /\ active_connections[k2].live
           /\ active_connections[k1].user_id = active_connections[k2].user_id)
          => k1 = k2
    /\ \A k1, k2 \in 1 .. Len(active_connections) :
          \A i1 \in 1 .. Len(active_connections[k1].conns) :
             \A i2 \in 1 .. Len(active_connections[k2].conns) :
                active_connections[k1].conns[i1] = active_connections[k2].conns[i2]
                => (k1 = k2 /\ i1 = i2)

\* A user's last connection has been unregistered while another user's
\* connection is registered.
C24_Witness ==
    \E a, b \in Channels :
        /\ ws[a].pc = "ended" /\ ws[a].unregistered = 1
        /\ NoEntry(active_connections, ws[a].user_id)
        /\ b \in Registered /\ ws[b].user_id # ws[a].user_id

(***************************************************************************)
(* C25.  sendTo delivers to a consistent snapshot of the user's channels:  *)
(* every channel that is registered for that user when sendTo starts and   *)
(* is still registered when it ends receives the message, even when        *)
(* another channel of the same user is unregistered (or a new one          *)
(* registered) while sendTo is suspended in a send.                        *)
(* send_personal_message iterates the registry's own list: a removal       *)
(* before the iterator's position makes it skip the next channel.          *)
(***************************************************************************)
C25_SendToSnapshot ==
    (task.kind = "personal" /\ task.status = "finished")
    => \A c \in TargetSet(task.d0, "personal", task.to) :
          c \in Registered => c \in AttemptedSet

(***************************************************************************)
(* C26.  A broadcast (to officers or to all) that runs while some user's   *)
(* first channel registers or last channel unregisters completes without   *)
(* raising an error, and still delivers the message to every channel that  *)
(* was registered for the whole duration of the broadcast.                 *)
(* The broadcasts iterate the dict itself: its iterator raises             *)
(* RuntimeError once the number of keys has changed.                       *)
(***************************************************************************)
C26_BroadcastSurvivesChurn ==
    task.kind \in {"officers", "all"}
    => /\ task.status # "raised"
       /\ task.status = "finished"
             => \A c \in TargetSet(task.d0, task.kind, task.to) :
                   c \in Registered => c \in AttemptedSet

(***************************************************************************)
(* C27.  One call of sendTo or of a broadcast sends its message to each    *)
(* channel at most once and never retries a failed send, also when         *)
(* channels register or unregister while the call is in progress.          *)
(* The attempts of the call name each channel once, and a channel holds no *)
(* more copies of the message than calls were made.                        *)
(***************************************************************************)
C27_AtMostOnce ==
    /\ \A a1, a2 \in 1 .. Len(task.attempts) :
          task.attempts[a1].chan = task.attempts[a2].chan => a1 = a2
    /\ \A c \in Channels :
          Cardinality({ j \in 1 .. Len(inbox[c]) : inbox[c][j] = task.message })
              <= ndeliv

\* A call has ended after a failed send and a successful one, having found
\* the registry changed while it was in progress.
C27_Witness ==
    /\ task.status \in {"finished", "raised"}
    /\ task.moved
    /\ \E a1, a2 \in 1 .. Len(task.attempts) :
          ~task.attempts[a1].ok /\ task.attempts[a2].ok

(***************************************************************************)
(* C29.  The registry holds only channels whose connection handler is      *)
(* still running: if sending the `connection` acknowledgement fails right  *)
(* after the channel was registered, the channel is unregistered before    *)
(* the handler ends, so no channel of a finished handler remains in the    *)
(* registry.                                                               *)
(* The acknowledgement is sent outside the handler's try block.            *)
(***************************************************************************)
C29_RegisteredHandlersRun ==
    \A c \in Channels :
        c \in Registered => ws[c].pc \in {"welcome", "receive"}

(***************************************************************************)
(* C30.  The query created by submit is owned by the authenticated caller: *)
(* its stored farmer_id is the caller's id whatever farmer_id the request  *)
(* body carries, the farmer_id reported in submit's response equals the    *)
(* stored one, and no later assign or reply changes a query's farmer_id.   *)
(* The response is built from the request body, not from the stored        *)
(* document.                                                               *)
(***************************************************************************)
C30_Owner ==
    \A s \in Slots :
        (reqs[s].op = "submit" /\ reqs[s].pc \in {"notify", "done"} /\ reqs[s].code \in {0, 201})
        => /\ queries[reqs[s].query_id].farmer_id = reqs[s].caller.user_id
           /\ reqs[s].result.farmer_id = queries[reqs[s].query_id].farmer_id

C30_OwnerKept ==
    \A q \in 1 .. Len(queries) : queries'[q].farmer_id = queries[q].farmer_id

C30_SubmitOwnedByCaller == [] C30_Owner /\ [][C30_OwnerKept]_vars

(***************************************************************************)
(* C28.  Unregister is idempotent: a second call of unregister for a       *)
(* (user, channel) pair that was already removed raises no error and       *)
(* leaves the registry unchanged, whether or not the user still has other  *)
(* registered channels.                                                    *)
(***************************************************************************)
SecondUnregister(c) == ws[c].unregistered = 1 /\ ws'[c].unregistered = 2

C28_UnregisterIdempotent ==
    [][\A c \in Channels :
          SecondUnregister(c) =>
              /\ ws'[c].error = None
              /\ active_connections' = active_connections]_vars

(***************************************************************************)
(* C21.  get_query_details called by a farmer returns the query only if    *)
(* its stored farmer_id is the caller's id; for another farmer's query it  *)
(* fails with 403 Forbidden and returns no query data; an officer may read *)
(* any query.                                                              *)
(***************************************************************************)
DetailsDone(s) == reqs[s].op = "details" /\ Done(s)

C21_FarmerReadsOwnOnly ==
    \A s \in Slots :
        DetailsDone(s) =>
            LET caller == reqs[s].caller
                stored == reqs[s].at_start
            IN  /\ reqs[s].code = 200 =>
                      /\ reqs[s].result # NoDoc
                      /\ reqs[s].result.farmer_id = find_one(reqs[s].query_id).farmer_id
                      /\ reqs[s].result.created_at = find_one(reqs[s].query_id).created_at
                /\ reqs[s].code # 200 => reqs[s].result = NoDoc
                /\ (caller.role = "farmer" /\ reqs[s].code = 200) =>
                      reqs[s].result.farmer_id = caller.user_id
                /\ (caller.role = "farmer" /\ stored # NoDoc) =>
                      reqs[s].code =
                          IF stored.farmer_id = caller.user_id THEN 200 ELSE 403
                /\ (caller.role = "officer" /\ stored # NoDoc) =>
                      reqs[s].code = 200

\* A farmer has asked for another farmer's query and got 403, and an
\* officer has read the same query.
C21_Witness ==
    \E s, t \in Slots :
        /\ DetailsDone(s) /\ DetailsDone(t)
        /\ reqs[s].query_id = reqs[t].query_id
        /\ reqs[s].caller.role = "farmer"
        /\ reqs[s].at_start # NoDoc
        /\ reqs[s].at_start.farmer_id # reqs[s].caller.user_id
        /\ reqs[s].code = 403
        /\ reqs[t].caller.role = "officer"
        /\ reqs[t].code = 200

(***************************************************************************)
(* C22.  get_query_history is role-scoped and filterable by status for     *)
(* every role: a farmer's result holds only the caller's own queries, and  *)
(* when a status filter is given the result, for a farmer as well as for   *)
(* an officer, holds only queries with that status.                        *)
(***************************************************************************)
HistoryDone(s) == reqs[s].op = "history" /\ Done(s)

C22_HistoryScopedAndFiltered ==
    \A s \in Slots :
        HistoryDone(s) =>
            \A j \in 1 .. Len(reqs[s].rows) :
                /\ reqs[s].caller.role = "farmer" =>
                      reqs[s].rows[j].farmer_id = reqs[s].caller.user_id
                /\ reqs[s].status # None =>
                      reqs[s].rows[j].status = reqs[s].status

(***************************************************************************)
(* C23.  No two stored users ever share a phone number: registering a      *)
(* phone that is already registered fails with a 4xx error and adds no     *)
(* user, also when two registrations with the same phone run concurrently  *)
(* (at most one of them succeeds).                                         *)
(***************************************************************************)
RegisterDone(s) == reqs[s].op = "register" /\ Done(s)

C23_PhoneUnique ==
    /\ \A i, j \in 1 .. Len(users) : users[i].phone = users[j].phone => i = j
    /\ \A s \in Slots :
          (RegisterDone(s) /\ reqs[s].taken) =>
              /\ reqs[s].code \in 400 .. 499
              /\ reqs[s].user_id = 0

====
